---- MODULE Spec2Model ----
(***************************************************************************)
(* Model of assemble_video (generate_and_upload.py): one call of the       *)
(* function, from loading the narration to returning the output path.      *)
(* Durations are whole seconds; caption times are exact fractions, since   *)
(* the code divides the narration duration by the number of chunks.  The   *)
(* transcript is represented by its word count, and a caption chunk by the *)
(* positions <<first, last>> of the words it joins.                        *)
(***************************************************************************)
EXTENDS Integers, Sequences, FiniteSets, TLC

\* ---- bounds of the model ----
MaxClips == 2
MaxClipDur == 1
MaxNarration == 4
MaxTarget == 7
MaxMusicDur == 1
MaxWords == 1201

\* ---- constants of the program ----
num_slides == 6
approx_words_per_caption == 30
CaptionLimit == 40
MinCaptionSeconds == 3

Min(a, b) == IF a < b THEN a ELSE b
Max(a, b) == IF a > b THEN a ELSE b

\* math.ceil(a / b) for a >= 0, b > 0
CeilFloorMutant(a, b) == a \div b
Ceil(a, b) == (a + b - 1) \div b

\* exact fractions num/den, den > 0
Frac(n, d) == [num |-> n, den |-> d]
FracAdd(x, y) ==
    IF x.den = y.den THEN Frac(x.num + y.num, x.den)
    ELSE Frac(x.num * y.den + y.num * x.den, x.den * y.den)
FracEq(x, y) == x.num * y.den = y.num * x.den
FracLe(x, y) == x.num * y.den <= y.num * x.den
FracMax(x, y) == IF FracLe(x, y) THEN y ELSE x

\* handles of the media objects the call opens
NarrationH == <<"narration", 0>>
MusicH == <<"music", 0>>
ClipH(i) == <<"clip", i>>
ConcatH(k) == <<"concatenated", k>>

\* word counts of the transcripts tried: around the chunk size and the cap
WordCounts ==
    {w \in 0..MaxWords :
        /\ w % approx_words_per_caption \in {0, 1}
        /\ \/ w <= approx_words_per_caption + 1
           \/ w >= CaptionLimit * approx_words_per_caption}

VARIABLES
    pc,               \* position in assemble_video
    failedStage,      \* stage whose exception left the function, or "none"
    target_duration,  \* parameter
    nPaths,           \* len(clips_paths)
    idx,              \* position of the load loop in clips_paths
    narration_length, \* narration_audio.duration
    video_clips,      \* loaded clips (or slides): [id, dur, compat]
    availDur,         \* concatenated.duration before looping
    loops,            \* times the concatenated track is used
    concatDur,        \* concatenated.duration after looping
    concatId,         \* which object `concatenated` is bound to
    videoFinalDur,    \* video_final.duration
    music,            \* what was found at MUSIC_PATH: [exists, loads, dur]
    audio_clips,      \* layers of the composite audio
    audioDur,         \* final_audio.duration
    words,            \* len(words)
    captions,         \* all chunks
    caption_clips,    \* rendered caption windows
    compositeDur,     \* video_with_captions.duration
    outFile,          \* what is at output_path
    returned,         \* TRUE once output_path was returned
    opened,           \* handles opened so far
    closed            \* handles closed so far

vars == <<pc, failedStage, target_duration, nPaths, idx, narration_length,
          video_clips, availDur, loops, concatDur, concatId, videoFinalDur,
          music, audio_clips, audioDur, words, captions, caption_clips,
          compositeDur, outFile, returned, opened, closed>>

Init ==
    /\ pc = "load_narration"
    /\ failedStage = "none"
    /\ target_duration \in 1..MaxTarget
    /\ nPaths \in 0..MaxClips
    /\ idx = 1
    /\ narration_length = 0
    /\ video_clips = <<>>
    /\ availDur = 0
    /\ loops = 0
    /\ concatDur = 0
    /\ concatId = 0
    /\ videoFinalDur = 0
    /\ music = [exists |-> FALSE, loads |-> FALSE, dur |-> 0]
    /\ audio_clips = <<>>
    /\ audioDur = 0
    /\ words = 0
    /\ captions = <<>>
    /\ caption_clips = <<>>
    /\ compositeDur = Frac(0, 1)
    /\ outFile = "absent"
    /\ returned = FALSE
    /\ opened = {}
    /\ closed = {}

\* an exception leaves assemble_video from the current position
Raise ==
    /\ pc' = "raised"
    /\ failedStage' = pc

\* narration_audio = AudioFileClip(narration_path): the file is missing or
\* unreadable (the constructor raises), or it opens with some duration
LoadNarration ==
    /\ pc = "load_narration"
    /\ \/ /\ Raise
          /\ UNCHANGED <<narration_length, opened>>
       \/ \E d \in 0..MaxNarration :
             /\ narration_length' = d
             /\ opened' = opened \cup {NarrationH}
             /\ pc' = "load_clips"
             /\ UNCHANGED failedStage
    /\ UNCHANGED <<target_duration, nPaths, idx, video_clips, availDur, loops,
                   concatDur, concatId, videoFinalDur, music, audio_clips, audioDur,
                   words, captions, caption_clips, compositeDur, outFile,
                   returned, closed>>

\* one iteration of `for p in clips_paths`
LoadClip ==
    /\ pc = "load_clips"
    /\ idx <= nPaths
    /\ idx' = idx + 1
    /\ \/ \* VideoFileClip(p) raises: logged, skipped
          UNCHANGED <<video_clips, opened>>
       \/ \E d \in 0..MaxClipDur, c \in BOOLEAN :
             /\ opened' = opened \cup {ClipH(idx)}
             /\ video_clips' =
                   IF d < 1 THEN video_clips
                   ELSE Append(video_clips, [id |-> idx, dur |-> d, compat |-> c])
    /\ UNCHANGED <<pc, failedStage, target_duration, nPaths, narration_length,
                   availDur, loops, concatDur, concatId, videoFinalDur,
                   music, audio_clips, audioDur, words, captions, caption_clips,
                   compositeDur, outFile, returned, closed>>

\* slide_dur = math.ceil(target_duration / num_slides)
SlideDurFloorMutant(t) == CeilFloorMutant(t, num_slides)
SlideDur(t) == Ceil(t, num_slides)

\* the fallback list: num_slides text slides of slide_dur each
Slides(t) == [i \in 1..num_slides |-> [id |-> 0, dur |-> SlideDur(t), compat |-> TRUE]]

\* `if not video_clips:` after the load loop
FallbackSlides ==
    /\ pc = "load_clips"
    /\ idx > nPaths
    /\ video_clips' = IF video_clips = <<>> THEN Slides(target_duration) ELSE video_clips
    /\ pc' = "concat"
    /\ UNCHANGED <<failedStage, target_duration, nPaths, idx, narration_length,
                   availDur, loops, concatDur, concatId, videoFinalDur,
                   music, audio_clips, audioDur, words, captions, caption_clips,
                   compositeDur, outFile, returned, opened, closed>>

\* duration of concatenate_videoclips(clips): the sum of the durations
RECURSIVE SumDur(_)
SumDur(clips) == IF clips = <<>> THEN 0 ELSE Head(clips).dur + SumDur(Tail(clips))

\* concatenate_videoclips(clips) raises when a clip cannot be combined
ConcatFails(clips) == \E i \in 1..Len(clips) : ~clips[i].compat

\* video_clips[: max(1, len(video_clips))], the list the retry concatenates
RetryList(clips) == SubSeq(clips, 1, Min(Len(clips), Max(1, Len(clips))))

\* try: concatenate(video_clips) except: concatenate(retry list)
ConcatenateVisuals ==
    /\ pc = "concat"
    /\ IF ~ConcatFails(video_clips)
       THEN /\ availDur' = SumDur(video_clips)
            /\ concatId' = 1
            /\ opened' = opened \cup {ConcatH(1)}
            /\ pc' = "reconcile"
            /\ UNCHANGED failedStage
       ELSE IF ~ConcatFails(RetryList(video_clips))
       THEN /\ availDur' = SumDur(RetryList(video_clips))
            /\ concatId' = 1
            /\ opened' = opened \cup {ConcatH(1)}
            /\ pc' = "reconcile"
            /\ UNCHANGED failedStage
       ELSE /\ Raise
            /\ UNCHANGED <<availDur, concatId, opened>>
    /\ UNCHANGED <<target_duration, nPaths, idx, narration_length, video_clips,
                   loops, concatDur, videoFinalDur, music, audio_clips, audioDur,
                   words, captions, caption_clips, compositeDur, outFile,
                   returned, closed>>

\* loops = math.ceil(narration_length / concatenated.duration) when the
\* concatenated track is shorter than the narration; one pass otherwise
LoopCountFloorMutant(avail, required) ==
    IF avail < required THEN Max(1, CeilFloorMutant(required, avail)) ELSE 1
LoopCount(avail, required) ==
    IF avail < required THEN Ceil(required, avail) ELSE 1

\* concatenated.subclip(0, min(concatenated.duration, narration_length))
TrimmedDuration(dur, required) == Min(dur, required)

\* `if concatenated.duration < narration_length:` loop, then trim
Reconcile ==
    /\ pc = "reconcile"
    /\ IF availDur < narration_length /\ availDur = 0
       THEN \* narration_length / 0 raises ZeroDivisionError
            /\ Raise
            /\ UNCHANGED <<loops, concatDur, concatId, videoFinalDur, opened>>
       ELSE /\ loops' = LoopCount(availDur, narration_length)
            /\ concatDur' = loops' * availDur
            /\ IF availDur < narration_length
               THEN /\ concatId' = 2
                    /\ opened' = opened \cup {ConcatH(2)}
               ELSE UNCHANGED <<concatId, opened>>
            /\ videoFinalDur' = TrimmedDuration(concatDur', narration_length)
            /\ pc' = "audio"
            /\ UNCHANGED failedStage
    /\ UNCHANGED <<target_duration, nPaths, idx, narration_length, video_clips,
                   availDur, music, audio_clips, audioDur, words, captions,
                   caption_clips, compositeDur, outFile, returned, closed>>

\* the background music reaches audio_clips.append: the file exists, it
\* loads, and the loop count (narration / music duration) can be computed
MusicAdded(exists, loads, m, required) ==
    exists /\ loads /\ ~(m < required /\ m = 0)

\* duration of the music layer: looped if shorter, then subclip(0, narration)
MusicLayerDuration(m, required) ==
    IF m < required THEN Min(Ceil(required, m) * m, required) ELSE required

\* audio_clips after the music block
AudioLayersKeepFailedMutant(exists, loads, m, required) ==
    IF exists
    THEN <<[name |-> "narration", dur |-> required],
           [name |-> "music", dur |-> IF loads /\ m > 0 THEN MusicLayerDuration(m, required) ELSE m]>>
    ELSE <<[name |-> "narration", dur |-> required]>>
AudioLayers(exists, loads, m, required) ==
    IF MusicAdded(exists, loads, m, required)
    THEN <<[name |-> "narration", dur |-> required],
           [name |-> "music", dur |-> MusicLayerDuration(m, required)]>>
    ELSE <<[name |-> "narration", dur |-> required]>>

\* CompositeAudioClip(audio_clips).set_duration(narration_audio.duration)
FinalAudioDuration(layers, required) == required

\* what os.path.exists(MUSIC_PATH) and AudioFileClip(MUSIC_PATH) can find:
\* no file, a file that does not load, or a clip of some duration
MusicStates ==
    {[exists |-> FALSE, loads |-> FALSE, dur |-> 0],
     [exists |-> TRUE, loads |-> FALSE, dur |-> 0]}
    \cup {[exists |-> TRUE, loads |-> TRUE, dur |-> m] : m \in 0..MaxMusicDur}

\* narration plus optional background music
BuildAudio ==
    /\ pc = "audio"
    /\ music' \in MusicStates
    /\ audio_clips' = AudioLayers(music'.exists, music'.loads, music'.dur, narration_length)
    /\ opened' = IF music'.exists /\ music'.loads THEN opened \cup {MusicH} ELSE opened
    /\ audioDur' = FinalAudioDuration(audio_clips', narration_length)
    /\ pc' = "captions"
    /\ UNCHANGED <<failedStage, target_duration, nPaths, idx, narration_length,
                   video_clips, availDur, loops, concatDur, concatId,
                   videoFinalDur, words, captions, caption_clips, compositeDur,
                   outFile, returned, closed>>

\* range(0, len(words), 30): the offsets at which a chunk starts
ChunkStarts(w) == {i \in 0..(w - 1) : i % approx_words_per_caption = 0}

\* [words[i:i+30] for i in range(0, len(words), 30)], chunks as <<first, last>>
\* word positions; the k-th offset of the range is (k - 1) * 30
Chunks(w) ==
    [k \in 1..Cardinality(ChunkStarts(w)) |->
        LET i == (k - 1) * approx_words_per_caption
        IN  <<i + 1, Min(i + approx_words_per_caption, w)>>]

\* cap_dur = max(3, narration_audio.duration / max(1, len(captions)))
CapDurNoFloorMutant(required, n) == Frac(required, Max(1, n))
CapDur(required, n) ==
    FracMax(Frac(MinCaptionSeconds * Max(1, n), Max(1, n)), Frac(required, Max(1, n)))

\* captions[:40]
RenderedNoCapMutant(caps) == caps
Rendered(caps) == SubSeq(caps, 1, Min(Len(caps), CaptionLimit))

\* the caption loop: window k starts at cap_start, which is 0 increased by
\* cap_dur once per earlier window
BuildCaptionClips(caps, cap_dur) ==
    [k \in 1..Len(caps) |->
        [text |-> caps[k],
         start |-> Frac((k - 1) * cap_dur.num, cap_dur.den),
         dur |-> cap_dur]]

\* read the transcript, chunk it, lay the caption windows out
BuildCaptions ==
    /\ pc = "captions"
    /\ \/ \* open(transcript) raises: no side file
          /\ Raise
          /\ UNCHANGED <<words, captions, caption_clips>>
       \/ \E w \in WordCounts :
             /\ words' = w
             /\ captions' = Chunks(w)
             /\ caption_clips' =
                   BuildCaptionClips(Rendered(captions'),
                                     CapDur(narration_length, Len(captions')))
             /\ pc' = "composite"
             /\ UNCHANGED failedStage
    /\ UNCHANGED <<target_duration, nPaths, idx, narration_length, video_clips,
                   availDur, loops, concatDur, concatId, videoFinalDur,
                   music, audio_clips, audioDur, compositeDur, outFile, returned,
                   opened, closed>>

\* end of a layer: start + duration
ClipEnd(c) == FracAdd(c.start, c.dur)

\* the latest end among the video (ending at vdur) and the caption windows
LatestEnd(clips, vdur) ==
    LET ends == {Frac(vdur, 1)} \cup {ClipEnd(clips[k]) : k \in 1..Len(clips)}
    IN  CHOOSE e \in ends : \A f \in ends : FracLe(f, e)

\* duration of CompositeVideoClip([video_final, *caption_clips])
CompositeDuration(vdur, clips) == LatestEnd(clips, vdur)

CompositeVideo ==
    /\ pc = "composite"
    /\ compositeDur' = CompositeDuration(videoFinalDur, caption_clips)
    /\ pc' = "write"
    /\ UNCHANGED <<failedStage, target_duration, nPaths, idx, narration_length,
                   video_clips, availDur, loops, concatDur, concatId,
                   videoFinalDur, music, audio_clips, audioDur, words, captions,
                   caption_clips, outFile, returned, opened, closed>>

\* video_with_captions.write_videofile(output_path, ...): the encoder writes
\* straight to output_path; it can fail before creating the file or midway
WriteVideo ==
    /\ pc = "write"
    /\ \/ /\ outFile' = "complete"
          /\ pc' = "close"
          /\ UNCHANGED failedStage
       \/ /\ Raise
          /\ outFile' \in {outFile, "partial"}
    /\ UNCHANGED <<target_duration, nPaths, idx, narration_length, video_clips,
                   availDur, loops, concatDur, concatId, videoFinalDur,
                   music, audio_clips, audioDur, words, captions, caption_clips,
                   compositeDur, returned, opened, closed>>

\* handles of the real clips in video_clips (slides have id 0)
ClipHandles(clips) == {ClipH(clips[i].id) : i \in {j \in 1..Len(clips) : clips[j].id # 0}}

\* narration_audio.close(); concatenated.close(); each video_clips close
ClosedAtEnd(clips, cid) == {NarrationH, ConcatH(cid)} \cup ClipHandles(clips)

\* the closes after the write, then return output_path
CloseClips ==
    /\ pc = "close"
    /\ closed' = closed \cup ClosedAtEnd(video_clips, concatId)
    /\ returned' = TRUE
    /\ pc' = "done"
    /\ UNCHANGED <<failedStage, target_duration, nPaths, idx, narration_length,
                   video_clips, availDur, loops, concatDur, concatId,
                   videoFinalDur, music, audio_clips, audioDur, words, captions,
                   caption_clips, compositeDur, outFile, opened>>

Next ==
    \/ LoadNarration
    \/ LoadClip
    \/ FallbackSlides
    \/ ConcatenateVisuals
    \/ Reconcile
    \/ BuildAudio
    \/ BuildCaptions
    \/ CompositeVideo
    \/ WriteVideo
    \/ CloseClips

Spec == Init /\ [][Next]_vars

\* ---- positions, in program order ----
PcOrder ==
    [p \in {"load_narration", "load_clips", "concat", "reconcile", "audio",
            "captions", "composite", "write", "close", "done"} |->
        CASE p = "load_narration" -> 0
          [] p = "load_clips" -> 1
          [] p = "concat" -> 2
          [] p = "reconcile" -> 3
          [] p = "audio" -> 4
          [] p = "captions" -> 5
          [] p = "composite" -> 6
          [] p = "write" -> 7
          [] p = "close" -> 8
          [] p = "done" -> 9]

\* how far the call got: its position, or the position it raised from
Position == IF pc = "raised" THEN PcOrder[failedStage] ELSE PcOrder[pc]

\* the step at position n has been completed
Past(n) == Position > n

\* C1: after the trim step, for concatenated duration A > 0 and narration
\* duration R > 0: if A < R the whole track was repeated ceil(R/A) times, if
\* A >= R it was used once, and the trimmed visual track lasts exactly R.
C1_LoopAndTrim ==
    (Past(3) /\ availDur > 0 /\ narration_length > 0) =>
        /\ availDur < narration_length =>
              /\ loops * availDur >= narration_length
              /\ (loops - 1) * availDur < narration_length
        /\ availDur >= narration_length => loops = 1
        /\ concatDur = loops * availDur
        /\ videoFinalDur = narration_length

\* C1 witness: a track of 2 s looped twice for a 3 s narration and trimmed
C1_Witness ==
    /\ pc = "audio"
    /\ availDur = 2
    /\ narration_length = 3
    /\ loops = 2
    /\ concatDur = 4
    /\ videoFinalDur = 3

\* C2: the composite that is written (visual track plus caption layers) has
\* duration equal to the narration duration.
C2_CompositeEqualsNarration ==
    Past(6) => FracEq(compositeDur, Frac(narration_length, 1))

\* number of chunks of the transcript, at least 1 (the divisor of cap_dur)
ChunkDivisor == Max(1, Len(captions))

\* the windows are back-to-back from 0
Contiguous(clips) ==
    /\ Len(clips) > 0 => clips[1].start.num = 0
    /\ \A k \in 1..(Len(clips) - 1) : FracEq(clips[k + 1].start, ClipEnd(clips[k]))

\* sum of the window durations (all windows share one denominator)
WindowsTotal(clips) ==
    IF clips = <<>> THEN Frac(0, 1)
    ELSE LET nums == [k \in 1..Len(clips) |-> clips[k].dur.num]
             total[k \in 0..Len(clips)] == IF k = 0 THEN 0 ELSE total[k - 1] + nums[k]
         IN  Frac(total[Len(clips)], clips[1].dur.den)

C4_WindowCount ==
    Past(5) =>
        /\ Len(caption_clips) = Min(Ceil(words, approx_words_per_caption), CaptionLimit)
        /\ \A k \in 1..Len(caption_clips) :
              /\ caption_clips[k].text = captions[k]
              /\ caption_clips[k].text =
                    <<(k - 1) * approx_words_per_caption + 1,
                      Min(k * approx_words_per_caption, words)>>

\* C4 witness: 1201 words make 41 chunks, of which 40 are rendered
C4_Witness ==
    /\ pc = "write"
    /\ words = CaptionLimit * approx_words_per_caption + 1
    /\ Len(captions) = CaptionLimit + 1
    /\ Len(caption_clips) = CaptionLimit
    /\ caption_clips[CaptionLimit].text[2] = CaptionLimit * approx_words_per_caption

\* C5: whatever is at the music path, the composed audio lasts exactly the
\* narration duration; with the music absent or failing to load the track is
\* the narration layer alone; and the audio step never raises.
C5_AudioClamp ==
    /\ Past(4) =>
          /\ audioDur = narration_length
          /\ Len(audio_clips) >= 1
          /\ audio_clips[1].name = "narration"
          /\ (~music.exists \/ ~music.loads) => Len(audio_clips) = 1
    /\ pc = "raised" => failedStage # "audio"

\* C5 witness: a music file that exists but fails to load
C5_Witness ==
    /\ pc = "captions"
    /\ music.exists
    /\ ~music.loads
    /\ narration_length > 0
    /\ audioDur = narration_length
    /\ Len(audio_clips) = 1

\* no visual source was opened
NoClipLoaded == \A i \in 1..nPaths : ClipH(i) \notin opened

\* C6: if no visual source loads (or there is none), the visual-track build
\* does not raise and the track is 6 slides of ceil(target_duration / 6)
\* each, concatenated to at least target_duration.
C6_FallbackSlides ==
    (Past(1) /\ NoClipLoaded) =>
        /\ Len(video_clips) = num_slides
        /\ \A k \in 1..Len(video_clips) :
              /\ video_clips[k].id = 0
              /\ video_clips[k].dur * num_slides >= target_duration
              /\ (video_clips[k].dur - 1) * num_slides < target_duration
        /\ Past(2) =>
              /\ availDur = num_slides * video_clips[1].dur
              /\ availDur >= target_duration
        /\ pc = "raised" => failedStage \notin {"load_clips", "concat", "reconcile"}

\* C6 witness: two sources that both fail, target 7: six slides of 2 s
C6_Witness ==
    /\ pc = "reconcile"
    /\ nPaths = 2
    /\ NoClipLoaded
    /\ target_duration = 7
    /\ Len(video_clips) = num_slides
    /\ availDur = 12

\* C7: a failure of the concatenation is recovered (retry with a reduced
\* list, then slides) and never leaves assemble_video.
C7_ConcatFailureRecovered ==
    ~(pc = "raised" /\ failedStage = "concat")

\* C8: after a run that failed, nothing is at the output path.
C8_NoPartialOutput ==
    pc = "raised" => outFile = "absent"

\* C9: when the call has returned or raised, every opened handle is closed.
C9_AllHandlesClosed ==
    pc \in {"done", "raised"} => opened \subseteq closed

\* C10: with the narration missing or of zero duration the call aborts: it
\* never reaches the write step and never returns an output path.
C10_EmptyNarrationAborts ==
    (Past(0) /\ narration_length = 0) =>
        /\ pc \notin {"write", "close", "done"}
        /\ failedStage # "write"
        /\ ~returned
====
